---------------------------- MODULE Spec2Model ----------------------------
(***************************************************************************)
(* Risk-gated navigation agents of vacuum-x-snake-shm:                     *)
(*   - Snake-SHM v0.3.2  (Algs, StructGate, SnakeGame, BaseAgent)          *)
(*   - Snake-SHM v0.3.4  (SweepAgent)                                      *)
(*   - Vacuum-X v0.3     (VacuumWorld, StructGate, LPIMonitor,             *)
(*                        AgentB_StructGate)                               *)
(*   - Vacuum-X v0.4     (VacuumWorld, StructGate, LPIMonitor, CoaseAgent) *)
(*                                                                         *)
(* Floats are fixed-point integers in millionths (MICRO).  The             *)
(* configuration classes are instantiated at a small scale (grid, windows, *)
(* battery); the value of the source is given beside each definition.      *)
(* Names shared by several source files carry the file's prefix:           *)
(* Config_ (snake_shm_v0_3_2.Config), Cfg_ (vacuum_x_v03.Cfg), no prefix   *)
(* for the module-level constants of vacuum_x_coase_frontier.              *)
(***************************************************************************)
EXTENDS Integers, Sequences, FiniteSets, TLC

VARIABLES
    variant,    \* which script runs: "BaseAgent", "SweepAgent", "AgentB_StructGate", "CoaseAgent"
    pc,         \* position in the run loop of that script
    game,       \* SnakeGame object (Snake runs)
    world,      \* VacuumWorld object (Vacuum runs)
    agent,      \* the agent object: BaseAgent, SweepAgent, AgentB_StructGate or CoaseAgent
    action,     \* action returned by the last call of the decision function
    info,       \* info dict returned by the last AgentB_StructGate.act call
    t           \* loop variable t of run_single (Vacuum-X v0.3)

vars == <<variant, pc, game, world, agent, action, info, t>>

MICRO == 1000 * 1000
None == "None"
Null == [null |-> TRUE]

Min(a, b) == IF a < b THEN a ELSE b
Max(a, b) == IF a > b THEN a ELSE b
\* np.clip(v, lo, hi)
Clip(v, lo, hi) == Max(lo, Min(hi, v))

\* a * b of two fixed-point numbers, a having at most three decimals (every
\* coefficient of the sources has)
Times(a, b) ==
    IF a % MICRO = 0 THEN (a \div MICRO) * b
    ELSE IF a % 100000 = 0 THEN ((a \div 100000) * b) \div 10
    ELSE ((a \div 1000) * b) \div 1000

RECURSIVE NewtonSqrt(_, _)
NewtonSqrt(n, x) ==
    LET y == (x + (n \div x)) \div 2
    IN  IF y >= x THEN x ELSE NewtonSqrt(n, y)

\* floor of the square root
ISqrt(n) == IF n < 2 THEN n ELSE NewtonSqrt(n, n)

RECURSIVE SumSeq(_)
SumSeq(s) == IF s = <<>> THEN 0 ELSE Head(s) + SumSeq(Tail(s))

SeqToSet(s) == {s[i] : i \in 1..Len(s)}

(***************************************************************************)
(* s[1] / s[0] of np.linalg.svd(pts - mean), in thousandths.  The singular *)
(* values of the centred N x 2 matrix are the square roots of the          *)
(* eigenvalues (T +- sqrt(R2)) / 2 of its 2 x 2 scatter matrix; both are   *)
(* computed here on the scatter matrix multiplied by N, which leaves the   *)
(* ratio unchanged.  The 1e-8 (1e-6) of the source only keeps 0/0 at 0.    *)
(***************************************************************************)
\* the ratio from the trace T of the scatter matrix and r10 = 10 * sqrt(R2)
SvdEntropy(T, r10) ==
    IF T = 0 THEN 0
    ELSE ISqrt(100 * ((10000 * (10 * T - r10)) \div (10 * T + r10)))

\* the ratio from the entries of the scatter matrix
SvdScatter(Sxx, Syy, Sxy) ==
    SvdEntropy(Sxx + Syy,
               Min(ISqrt(100 * ((Sxx - Syy) * (Sxx - Syy) + 4 * Sxy * Sxy)),
                   10 * (Sxx + Syy)))

\* the ratio from the sums of the N points
SvdSums(N, sx, sy, sxx, syy, sxy) ==
    SvdScatter(N * sxx - sx * sx, N * syy - sy * sy, N * sxy - sx * sy)

SvdRatio(pts) ==
    SvdSums(Len(pts),
            SumSeq([i \in 1..Len(pts) |-> pts[i][1]]),
            SumSeq([i \in 1..Len(pts) |-> pts[i][2]]),
            SumSeq([i \in 1..Len(pts) |-> pts[i][1] * pts[i][1]]),
            SumSeq([i \in 1..Len(pts) |-> pts[i][2] * pts[i][2]]),
            SumSeq([i \in 1..Len(pts) |-> pts[i][1] * pts[i][2]]))

(***************************************************************************)
(* snake_shm_v0_3_2.py: Config                                             *)
(***************************************************************************)
Config_GRID_W == 3                    \* 20 in the source
Config_GRID_H == 3                    \* 20 in the source
Config_MAX_STEPS_WITHOUT_FOOD == 6    \* 200 in the source
Config_MAX_TOTAL_STEPS == 10          \* 20000 in the source
Config_W_TOPO == 700000               \* 0.7
Config_W_GEOM == 300000               \* 0.3
Config_SVD_ENTROPY_SCALE == 5         \* 5.0
Config_RISK_THRESHOLD_BASE == 350000  \* 0.35
Config_RISK_HUNGER_GAIN == 500000     \* 0.50
Config_RESCUE_WINDOW == 3             \* 20 in the source

(***************************************************************************)
(* snake_shm_v0_3_2.py: Algs                                               *)
(***************************************************************************)
Algs_MOVES ==
    << [name |-> "UP",    d |-> <<0, -1>>],
       [name |-> "DOWN",  d |-> <<0, 1>>],
       [name |-> "LEFT",  d |-> <<-1, 0>>],
       [name |-> "RIGHT", d |-> <<1, 0>>] >>

Add(c, d) == <<c[1] + d[1], c[2] + d[2]>>

InGrid(c, w, h) == 0 <= c[1] /\ c[1] < w /\ 0 <= c[2] /\ c[2] < h

\* the for loop of bfs_path over Algs.MOVES, from move i on
RECURSIVE BfsExpand(_, _, _, _, _, _, _)
BfsExpand(q, visited, cur, i, obs_set, w, h) ==
    IF i > Len(Algs_MOVES) THEN [q |-> q, visited |-> visited]
    ELSE LET n == Add(cur.cell, Algs_MOVES[i].d)
         IN  IF InGrid(n, w, h) /\ n \notin obs_set /\ n \notin visited
             THEN BfsExpand(Append(q, [cell |-> n,
                                       path |-> Append(cur.path, Algs_MOVES[i].name)]),
                            visited \cup {n}, cur, i + 1, obs_set, w, h)
             ELSE BfsExpand(q, visited, cur, i + 1, obs_set, w, h)

\* the while loop of bfs_path; the result is the path[0]-or-None it returns
RECURSIVE BfsLoop(_, _, _, _, _, _)
BfsLoop(q, visited, goal, obs_set, w, h) ==
    IF q = <<>> THEN None
    ELSE LET cur == Head(q)
         IN  IF cur.cell = goal
             THEN (IF cur.path # <<>> THEN cur.path[1] ELSE None)
             ELSE LET e == BfsExpand(Tail(q), visited, cur, 1, obs_set, w, h)
                  IN  BfsLoop(e.q, e.visited, goal, obs_set, w, h)

\* a fixed direction in place of the search
Algs_bfs_path_AlwaysUp(start, goal, obstacles, w, h) ==
    IF start = goal THEN None ELSE "UP"

\* the search with the obstacles left out
Algs_bfs_path_IgnoringObstacles(start, goal, obstacles, w, h) ==
    BfsLoop(<<[cell |-> start, path |-> <<>>]>>, {start}, goal, {}, w, h)

Algs_bfs_path(start, goal, obstacles, w, h) ==
    BfsLoop(<<[cell |-> start, path |-> <<>>]>>, {start}, goal,
            SeqToSet(obstacles), w, h)

RECURSIVE FloodExpand_MarkNothing(_, _, _, _, _, _, _)
\* the expansion without "visited.add((nx, ny))" at enqueue time
FloodExpand_MarkNothing(q, visited, cur, i, obs_set, w, h) ==
    IF i > Len(Algs_MOVES) THEN [q |-> q, visited |-> visited \cup {cur}]
    ELSE LET n == Add(cur, Algs_MOVES[i].d)
         IN  IF InGrid(n, w, h) /\ n \notin obs_set /\ n \notin visited
             THEN FloodExpand_MarkNothing(Append(q, n), visited, cur, i + 1, obs_set, w, h)
             ELSE FloodExpand_MarkNothing(q, visited, cur, i + 1, obs_set, w, h)

RECURSIVE FloodExpand(_, _, _, _, _, _, _)
FloodExpand(q, visited, cur, i, obs_set, w, h) ==
    IF i > Len(Algs_MOVES) THEN [q |-> q, visited |-> visited]
    ELSE LET n == Add(cur, Algs_MOVES[i].d)
         IN  IF InGrid(n, w, h) /\ n \notin obs_set /\ n \notin visited
             THEN FloodExpand(Append(q, n), visited \cup {n}, cur, i + 1, obs_set, w, h)
             ELSE FloodExpand(q, visited, cur, i + 1, obs_set, w, h)

RECURSIVE FloodLoop(_, _, _, _, _, _)
FloodLoop(q, visited, count, obs_set, w, h) ==
    IF q = <<>> THEN count
    ELSE LET e == FloodExpand(Tail(q), visited, Head(q), 1, obs_set, w, h)
         IN  FloodLoop(e.q, e.visited, count + 1, obs_set, w, h)

\* the fill with the obstacles left out
Algs_flood_fill_count_IgnoringObstacles(start, obstacles, w, h) ==
    FloodLoop(<<start>>, {start}, 0, {}, w, h)

Algs_flood_fill_count(start, obstacles, w, h) ==
    FloodLoop(<<start>>, {start}, 0, SeqToSet(obstacles), w, h)

RECURSIVE MaxReachLoop_LastWins(_, _, _, _, _, _, _)
\* the loop with "area >= max_area": the last direction wins a tie
MaxReachLoop_LastWins(i, best_move, max_area, head, obstacles, w, h) ==
    IF i > Len(Algs_MOVES) THEN best_move
    ELSE LET n == Add(head, Algs_MOVES[i].d)
         IN  IF InGrid(n, w, h) /\ n \notin SeqToSet(obstacles)
                /\ Algs_flood_fill_count(n, obstacles, w, h) >= max_area
             THEN MaxReachLoop_LastWins(i + 1, Algs_MOVES[i].name,
                                        Algs_flood_fill_count(n, obstacles, w, h),
                                        head, obstacles, w, h)
             ELSE MaxReachLoop_LastWins(i + 1, best_move, max_area, head, obstacles, w, h)

\* the for loop of get_max_reach_move, from move i on
RECURSIVE MaxReachLoop(_, _, _, _, _, _, _)
MaxReachLoop(i, best_move, max_area, head, obstacles, w, h) ==
    IF i > Len(Algs_MOVES) THEN best_move
    ELSE LET n == Add(head, Algs_MOVES[i].d)
         IN  IF InGrid(n, w, h) /\ n \notin SeqToSet(obstacles)
             THEN LET area == Algs_flood_fill_count(n, obstacles, w, h)
                  IN  IF area > max_area
                      THEN MaxReachLoop(i + 1, Algs_MOVES[i].name, area, head, obstacles, w, h)
                      ELSE MaxReachLoop(i + 1, best_move, max_area, head, obstacles, w, h)
             ELSE MaxReachLoop(i + 1, best_move, max_area, head, obstacles, w, h)

Algs_get_max_reach_move(head, obstacles, w, h) ==
    MaxReachLoop(1, None, -1, head, obstacles, w, h)

(***************************************************************************)
(* snake_shm_v0_3_2.py: StructGate                                         *)
(***************************************************************************)
\* geom_risk without the np.clip to [0, 1]
Snake_geom_risk_Unclipped(snake_body) ==
    MICRO - SvdRatio(snake_body) * 1000 * Config_SVD_ENTROPY_SCALE

\* geom_risk of analyze_risk; np.linalg.svd does not raise on finite input
Snake_geom_risk(snake_body) ==
    Clip(MICRO - SvdRatio(snake_body) * 1000 * Config_SVD_ENTROPY_SCALE, 0, MICRO)

\* the obstacles argument of the flood fill of analyze_risk
RiskQueryObstacles(snake_body) == snake_body

Snake_topo_risk(snake_body, w, h) ==
    LET area == Algs_flood_fill_count(snake_body[1], RiskQueryObstacles(snake_body), w, h)
    IN  Clip(MICRO - (MICRO * area) \div Max(1, Len(snake_body)), 0, MICRO)

StructGate_analyze_risk(snake_body, w, h) ==
    IF Len(snake_body) < 3 THEN 0
    ELSE Times(Config_W_TOPO, Snake_topo_risk(snake_body, w, h))
         + Times(Config_W_GEOM, Snake_geom_risk(snake_body))

(***************************************************************************)
(* snake_shm_v0_3_2.py: SnakeGame                                          *)
(***************************************************************************)
SnakeCells == {<<x, y>> : x \in 0..(Config_GRID_W - 1), y \in 0..(Config_GRID_H - 1)}

\* _spawn_food: up to 100 random cells, the first one off the snake; (0, 0)
\* when all 100 draws hit the snake
SpawnFood(snk) == (SnakeCells \ SeqToSet(snk)) \cup {<<0, 0>>}

SnakeGame_init(f) ==
    [w |-> Config_GRID_W, h |-> Config_GRID_H,
     snake |-> << <<Config_GRID_W \div 2, Config_GRID_H \div 2>> >>,
     food |-> f, steps_since_food |-> 0, steps_total |-> 0,
     done |-> FALSE, death |-> "ALIVE"]

ActionDelta(act) ==
    CASE act = "UP"    -> <<0, -1>>
      [] act = "DOWN"  -> <<0, 1>>
      [] act = "LEFT"  -> <<-1, 0>>
      [] act = "RIGHT" -> <<1, 0>>
      [] OTHER            -> <<0, 0>>

ButLast(s) == SubSeq(s, 1, Len(s) - 1)

\* an empty obstacle list in place of body_no_tail
PathQueryObstacles_Nothing(g) == <<>>

\* body_no_tail of get_action: the obstacles argument of its bfs_path and
\* get_max_reach_move calls
PathQueryObstacles(g) == ButLast(g.snake)

\* SnakeGame.step(action) on game g; f is the cell _spawn_food returns if called
SnakeGame_step(g, act, f) ==
    IF g.done THEN g
    ELSE LET total == g.steps_total + 1
             since == g.steps_since_food + 1
             n     == Add(g.snake[1], ActionDelta(act))
         IN  IF ~InGrid(n, g.w, g.h) \/ n \in SeqToSet(ButLast(g.snake))
             THEN [g EXCEPT !.steps_total = total, !.steps_since_food = since,
                            !.done = TRUE, !.death = "Collision"]
             ELSE LET grown  == <<n>> \o g.snake
                      eaten  == (n = g.food)
                      snk    == IF eaten THEN grown ELSE ButLast(grown)
                      since2 == IF eaten THEN 0 ELSE since
                      starve == since2 >= Config_MAX_STEPS_WITHOUT_FOOD
                  IN  [g EXCEPT !.steps_total = total,
                                !.steps_since_food = since2,
                                !.snake = snk,
                                !.food = IF eaten THEN f ELSE g.food,
                                !.done = starve,
                                !.death = IF starve THEN "Starvation" ELSE g.death]

\* whether step(action) calls _spawn_food
StepEats(g, act) ==
    LET n == Add(g.snake[1], ActionDelta(act))
    IN  ~g.done /\ InGrid(n, g.w, g.h) /\ n \notin SeqToSet(ButLast(g.snake)) /\ n = g.food

(***************************************************************************)
(* snake_shm_v0_3_2.py: BaseAgent;  snake_shm_v0_3_4.py: SweepAgent        *)
(***************************************************************************)
\* alpha values are in tenths: run_clean_sweep's alphas 0.0 .. 3.0
SweepAlphas == {0, 10, 30}

BaseAgent_init(is_coase) ==
    [is_coase |-> is_coase, panic_history |-> <<>>, in_panic |-> FALSE]

SweepAgent_init(alpha) ==
    [is_coase |-> TRUE, panic_history |-> <<>>, in_panic |-> FALSE,
     alpha |-> alpha, steps_in_panic |-> 0]

hunger_ratio(g) == Min(MICRO, (MICRO * g.steps_since_food) \div Config_MAX_STEPS_WITHOUT_FOOD)

\* threshold of BaseAgent.get_action
Base_threshold(g) ==
    Config_RISK_THRESHOLD_BASE + Times(Config_RISK_HUNGER_GAIN, hunger_ratio(g))

\* the threshold without the alpha injection
Sweep_threshold_NoAlpha(g, alpha) ==
    Config_RISK_THRESHOLD_BASE + Times(Config_RISK_HUNGER_GAIN, hunger_ratio(g))

\* the threshold with alpha in place of the effective gain
Sweep_threshold_GainDropped(g, alpha) ==
    Config_RISK_THRESHOLD_BASE + Times((MICRO * alpha) \div 10, hunger_ratio(g))

\* threshold of SweepAgent.get_action: effective_gain = RISK_HUNGER_GAIN * alpha
Sweep_threshold(g, alpha) ==
    Config_RISK_THRESHOLD_BASE + Times((Config_RISK_HUNGER_GAIN * alpha) \div 10, hunger_ratio(g))

\* the panic branch keeping the food move
EscapeAction_KeepsFoodMove(g) ==
    Algs_bfs_path(g.snake[1], g.food, PathQueryObstacles(g), g.w, g.h)

\* the "if risk >= threshold" branch shared by both agents: the escape move
EscapeAction(g) ==
    LET head         == g.snake[1]
        body_no_tail == PathQueryObstacles(g)
        tail         == g.snake[Len(g.snake)]
        escape_move  == Algs_bfs_path(head, tail, body_no_tail, g.w, g.h)
    IN  IF escape_move # None THEN escape_move
        ELSE Algs_get_max_reach_move(head, body_no_tail, g.w, g.h)

\* "if not action: action = get_max_reach_move(...)"
MotorFloor(g, act) ==
    IF act = None
    THEN Algs_get_max_reach_move(g.snake[1], PathQueryObstacles(g), g.w, g.h)
    ELSE act

\* get_action escaping only on the step that starts the panic episode
BaseAgent_get_action_EscapeOnEntry(a, g) ==
    LET head         == g.snake[1]
        body_no_tail == PathQueryObstacles(g)
        action0      == Algs_bfs_path(head, g.food, body_no_tail, g.w, g.h)
        risk         == StructGate_analyze_risk(g.snake, g.w, g.h)
        panic        == a.is_coase /\ risk >= Base_threshold(g)
        a1 == IF ~a.is_coase THEN a
              ELSE IF panic
                   THEN (IF ~a.in_panic
                         THEN [a EXCEPT !.panic_history = Append(@, g.steps_total),
                                        !.in_panic = TRUE]
                         ELSE a)
                   ELSE [a EXCEPT !.in_panic = FALSE]
        action1 == IF panic /\ ~a.in_panic THEN EscapeAction(g) ELSE action0
    IN  [agent |-> a1, action |-> MotorFloor(g, action1)]

\* BaseAgent.get_action: [agent |-> the agent afterwards, action |-> the result]
BaseAgent_get_action(a, g) ==
    LET head         == g.snake[1]
        body_no_tail == PathQueryObstacles(g)
        action0      == Algs_bfs_path(head, g.food, body_no_tail, g.w, g.h)
        risk         == StructGate_analyze_risk(g.snake, g.w, g.h)
        panic        == a.is_coase /\ risk >= Base_threshold(g)
        a1 == IF ~a.is_coase THEN a
              ELSE IF panic
                   THEN (IF ~a.in_panic
                         THEN [a EXCEPT !.panic_history = Append(@, g.steps_total),
                                        !.in_panic = TRUE]
                         ELSE a)
                   ELSE [a EXCEPT !.in_panic = FALSE]
        action1 == IF panic THEN EscapeAction(g) ELSE action0
    IN  [agent |-> a1, action |-> MotorFloor(g, action1)]

\* SweepAgent.get_action
SweepAgent_get_action(a, g) ==
    LET head         == g.snake[1]
        body_no_tail == PathQueryObstacles(g)
        action0      == Algs_bfs_path(head, g.food, body_no_tail, g.w, g.h)
        risk         == StructGate_analyze_risk(g.snake, g.w, g.h)
        panic        == risk >= Sweep_threshold(g, a.alpha)
        a1 == IF panic
              THEN (IF ~a.in_panic
                    THEN [a EXCEPT !.panic_history = Append(@, g.steps_total),
                                   !.in_panic = TRUE]
                    ELSE a)
              ELSE [a EXCEPT !.in_panic = FALSE]
        a2 == IF a1.in_panic THEN [a1 EXCEPT !.steps_in_panic = @ + 1] ELSE a1
        action1 == IF panic THEN EscapeAction(g) ELSE action0
    IN  [agent |-> a2, action |-> MotorFloor(g, action1)]

\* run_experiment: rescue_count after the loop
rescue_count(a, g) ==
    Cardinality({i \in 1..Len(a.panic_history) :
                    g.steps_total - a.panic_history[i] >= Config_RESCUE_WINDOW})

(***************************************************************************)
(* The Snake runs: run_experiment (BaseAgent) and run_clean_sweep          *)
(* (SweepAgent): while not game.done and steps_total < MAX_TOTAL_STEPS:    *)
(* action = agent.get_action(game); game.step(action)                      *)
(***************************************************************************)
SnakeVariants == {"BaseAgent", "SweepAgent"}

InitSnake ==
    /\ variant \in SnakeVariants
    /\ pc = "get_action"
    /\ \E f \in SpawnFood(<< <<Config_GRID_W \div 2, Config_GRID_H \div 2>> >>) :
           game = SnakeGame_init(f)
    /\ IF variant = "BaseAgent"
       THEN \E c \in BOOLEAN : agent = BaseAgent_init(c)
       ELSE \E al \in SweepAlphas : agent = SweepAgent_init(al)
    /\ action = None
    /\ world = Null /\ info = Null /\ t = 0

SnakeLoopCond == ~game.done /\ game.steps_total < Config_MAX_TOTAL_STEPS

BaseGetAction ==
    /\ variant = "BaseAgent" /\ pc = "get_action" /\ SnakeLoopCond
    /\ LET r == BaseAgent_get_action(agent, game)
       IN  agent' = r.agent /\ action' = r.action
    /\ pc' = "step"
    /\ UNCHANGED <<variant, game, world, info, t>>

SweepGetAction ==
    /\ variant = "SweepAgent" /\ pc = "get_action" /\ SnakeLoopCond
    /\ LET r == SweepAgent_get_action(agent, game)
       IN  agent' = r.agent /\ action' = r.action
    /\ pc' = "step"
    /\ UNCHANGED <<variant, game, world, info, t>>

SnakeStep ==
    /\ variant \in SnakeVariants /\ pc = "step"
    /\ IF StepEats(game, action)
       THEN \E f \in SpawnFood(<<Add(game.snake[1], ActionDelta(action))>> \o game.snake) :
               game' = SnakeGame_step(game, action, f)
       ELSE game' = SnakeGame_step(game, action, game.food)
    /\ pc' = "get_action"
    /\ UNCHANGED <<variant, agent, action, world, info, t>>

\* the loop has ended: the run's metrics are computed
SnakeRunEnd ==
    /\ variant \in SnakeVariants /\ pc = "get_action" /\ ~SnakeLoopCond
    /\ pc' = "finished"
    /\ UNCHANGED <<variant, game, agent, action, world, info, t>>

NextSnake == BaseGetAction \/ SweepGetAction \/ SnakeStep \/ SnakeRunEnd

SpecSnake == InitSnake /\ [][NextSnake]_vars

(***************************************************************************)
(* vacuum_x_v03.py: Cfg.  Reals are in millionths.  The grid, the battery  *)
(* and the windows are scaled down; the gains and decays are the source's. *)
(***************************************************************************)
Cfg_W == 2
Cfg_H == 2
Cfg_OBSTACLE_DENSITY == 250000
Cfg_BATTERY_MAX == 9
Cfg_LOW_BAT_BASE == 5
Cfg_PANIC_TH_BASE == 800000
Cfg_ESCAPE_STEPS == 2
Cfg_COOLDOWN_STEPS == 4
Cfg_SVD_WINDOW == 4
Cfg_SVD_GAIN == 5
Cfg_LPI_RHO == 750000
Cfg_DAMAGE_GAIN == 2000000
Cfg_STEP_DECAY == 1000
Cfg_COLLAPSE_DECAY == 40000
Cfg_RECOVERY_GAIN == 60000
Cfg_HUNGER_GAIN_BAT == 20000000
Cfg_HUNGER_GAIN_PANIC == 400000
Cfg_BAT_PRESSURE_GAIN == 250000
Cfg_RESCUE_WINDOW == 6
Cfg_LOCAL_REACH_DEPTH == 30
\* parameter max_steps of run_single
run_single_max_steps == 12

DIRS(a) == ActionDelta(a)

V03_Cells == {<<x, y>> : x \in 0..(Cfg_W - 1), y \in 0..(Cfg_H - 1)}

\* VacuumWorld.__init__: n_obs obstacles off the dock, the agent on a free
\* cell that is not the dock, a full battery
V03_VacuumWorld_init(obs, p) ==
    [w |-> Cfg_W, h |-> Cfg_H, grid |-> obs, dock |-> <<0, 0>>, pos |-> p,
     battery |-> Cfg_BATTERY_MAX, steps |-> 0, recharge_cycles |-> 0]

V03_n_obs == Times(Cfg_OBSTACLE_DENSITY, Cfg_W * Cfg_H)

V03_InitWorlds ==
    {V03_VacuumWorld_init(obs, p) :
        <<obs, p>> \in {op \in (SUBSET (V03_Cells \ {<<0, 0>>})) \X (V03_Cells \ {<<0, 0>>}) :
                          Cardinality(op[1]) = V03_n_obs /\ op[2] \notin op[1]}}

VacuumWorld_in_bounds(wd, p) == 0 <= p[1] /\ p[1] < wd.w /\ 0 <= p[2] /\ p[2] < wd.h

VacuumWorld_is_free(wd, p) == VacuumWorld_in_bounds(wd, p) /\ p \notin wd.grid

\* VacuumWorld.step(action): [world |-> the world afterwards, done |-> res["done"]]
V03_VacuumWorld_step(wd, act) ==
    LET np_  == Add(wd.pos, DIRS(act))
        pos2 == IF VacuumWorld_is_free(wd, np_) THEN np_ ELSE wd.pos
        atd  == (pos2 = wd.dock)
        bat2 == IF atd THEN Cfg_BATTERY_MAX ELSE wd.battery - 1
        rc2  == IF atd /\ wd.battery < Cfg_BATTERY_MAX
                THEN wd.recharge_cycles + 1 ELSE wd.recharge_cycles
    IN  [world |-> [wd EXCEPT !.steps = wd.steps + 1, !.pos = pos2,
                              !.battery = bat2, !.recharge_cycles = rc2],
         done  |-> (bat2 <= 0)]

VacNames == <<"UP", "DOWN", "LEFT", "RIGHT">>

RECURSIVE ReachExpand(_, _, _, _, _)
\* the "for a in [UP, DOWN, LEFT, RIGHT]" loop of local_reachable_count
ReachExpand(wd, p, i, q, vis) ==
    IF i > Len(VacNames) THEN [q |-> q, vis |-> vis]
    ELSE LET np_ == Add(p, DIRS(VacNames[i]))
         IN  IF np_ \in vis \/ ~VacuumWorld_is_free(wd, np_)
             THEN ReachExpand(wd, p, i + 1, q, vis)
             ELSE ReachExpand(wd, p, i + 1, Append(q, np_), vis \cup {np_})

RECURSIVE ReachLoop(_, _, _, _, _)
ReachLoop(wd, q, vis, expanded, max_expand) ==
    IF q = <<>> \/ expanded >= max_expand THEN Cardinality(vis)
    ELSE LET r == ReachExpand(wd, Head(q), 1, Tail(q), vis)
         IN  ReachLoop(wd, r.q, r.vis, expanded + 1, max_expand)

local_reachable_count(wd, start) ==
    ReachLoop(wd, <<start>>, {start}, 0, Cfg_LOCAL_REACH_DEPTH)

RECURSIVE EscapeLoop(_, _, _, _)
EscapeLoop(wd, i, best, best_score) ==
    IF i > Len(VacNames) THEN best
    ELSE LET np_ == Add(wd.pos, DIRS(VacNames[i]))
         IN  IF ~VacuumWorld_is_free(wd, np_)
             THEN EscapeLoop(wd, i + 1, best, best_score)
             ELSE LET score == local_reachable_count(wd, np_)
                  IN  IF score > best_score
                      THEN EscapeLoop(wd, i + 1, VacNames[i], score)
                      ELSE EscapeLoop(wd, i + 1, best, best_score)

choose_escape_action(wd) ==
    LET best == EscapeLoop(wd, 1, None, -1)
    IN  IF best = None THEN "STAY" ELSE best

\* greedy_to_dock_action: the set of actions it can return, over the
\* outcomes of random.shuffle and random.choice
greedy_cand(wd) ==
    {a \in {"RIGHT", "LEFT", "DOWN", "UP"} :
        \/ a = "RIGHT" /\ wd.dock[1] > wd.pos[1]
        \/ a = "LEFT"  /\ wd.dock[1] < wd.pos[1]
        \/ a = "DOWN"  /\ wd.dock[2] > wd.pos[2]
        \/ a = "UP"    /\ wd.dock[2] < wd.pos[2]}

greedy_to_dock_action(wd) ==
    LET free == {a \in greedy_cand(wd) : VacuumWorld_is_free(wd, Add(wd.pos, DIRS(a)))}
    IN  IF free # {} THEN free ELSE {"UP", "DOWN", "LEFT", "RIGHT", "STAY"}

\* deque(maxlen=window).append
DequeAppend(hist, x, maxlen) ==
    IF Len(hist) >= maxlen THEN Append(Tail(hist), x) ELSE Append(hist, x)

\* StructGate.panic (v0.3) on the history after update
V03_StructGate_panic(hist) ==
    IF Len(hist) < Cfg_SVD_WINDOW THEN 0
    ELSE LET entropy == SvdRatio(hist) * 1000
         IN  Clip(MICRO - Min(entropy * Cfg_SVD_GAIN, MICRO), 0, MICRO)

\* LPIMonitor.update (v0.3): [H, lpi] afterwards
V03_LPIMonitor_update(mon, d_t, is_safe) ==
    LET delta_H == (0 - Cfg_STEP_DECAY) - Times(Cfg_COLLAPSE_DECAY, d_t)
                   + (IF is_safe THEN Cfg_RECOVERY_GAIN ELSE 0)
        H2      == Clip(mon.H + delta_H, 0, MICRO)
        damage  == Max(0, mon.H - H2)
        lpi_raw == Times(Cfg_DAMAGE_GAIN, damage)
    IN  [H |-> H2,
         lpi |-> Times(Cfg_LPI_RHO, mon.lpi) + Times(MICRO - Cfg_LPI_RHO, lpi_raw)]

\* AgentB_StructGate._dynamic_thresholds
AgentB_dynamic_thresholds(lpi, battery) ==
    LET bat_ratio        == (battery * MICRO) \div Cfg_BATTERY_MAX
        battery_pressure == MICRO - bat_ratio
        panic_th == Cfg_PANIC_TH_BASE - Times(Cfg_HUNGER_GAIN_PANIC, lpi)
                    - Times(Cfg_BAT_PRESSURE_GAIN, battery_pressure)
        bat_th   == Cfg_LOW_BAT_BASE * MICRO + Times(Cfg_HUNGER_GAIN_BAT, lpi)
    IN  [panic_th |-> Clip(panic_th, 200000, 950000),
         bat_th   |-> Clip(bat_th, 5 * MICRO, (Cfg_BATTERY_MAX - 1) * MICRO)]

AgentB_StructGate_init ==
    [hist |-> <<>>, H |-> MICRO, lpi |-> 0, mode |-> "NORMAL",
     escape_timer |-> 0, cooldown |-> 0, pending_rescue |-> Null,
     panic_events |-> 0, panic_saved |-> 0,
     risk_drop_events |-> 0, risk_drop_success |-> 0]

\* the trigger without its cooldown guard
AgentB_trigger_NoCooldown(target_mode, cooldown, d_t, panic_th) ==
    target_mode = "NORMAL" /\ d_t >= panic_th

\* the trigger without its test of the target mode
AgentB_trigger_AnyMode(target_mode, cooldown, d_t, panic_th) ==
    cooldown = 0 /\ d_t >= panic_th

\* the guard of the panic/escape trigger in AgentB_StructGate.act
AgentB_trigger(target_mode, cooldown, d_t, panic_th) ==
    target_mode = "NORMAL" /\ cooldown = 0 /\ d_t >= panic_th

\* AgentB_StructGate.act up to and including "self.mode = target_mode":
\* [agent |-> the agent, info |-> the info dict]
AgentB_StructGate_mode(a, wd, tt) ==
    LET hist2 == DequeAppend(a.hist, wd.pos, Cfg_SVD_WINDOW)
        d_t   == V03_StructGate_panic(hist2)
        mon2  == V03_LPIMonitor_update([H |-> a.H, lpi |-> a.lpi], d_t, wd.pos = wd.dock)
        th    == AgentB_dynamic_thresholds(mon2.lpi, wd.battery)
        due   == a.pending_rescue # Null /\ tt - a.pending_rescue.t >= Cfg_RESCUE_WINDOW
        drop  == due /\ d_t < a.pending_rescue.start_risk - 150000
        a1    == [a EXCEPT !.hist = hist2, !.H = mon2.H, !.lpi = mon2.lpi,
                           !.risk_drop_events = IF due THEN @ + 1 ELSE @,
                           !.risk_drop_success = IF drop THEN @ + 1 ELSE @,
                           !.panic_saved = IF due THEN @ + 1 ELSE @,
                           !.pending_rescue = IF due THEN Null ELSE @,
                           !.cooldown = IF @ > 0 THEN @ - 1 ELSE @]
        target1 == IF wd.battery * MICRO < th.bat_th THEN "SURVIVAL" ELSE a.mode
        trigger == AgentB_trigger(target1, a1.cooldown, d_t, th.panic_th)
        a2    == IF trigger
                 THEN [a1 EXCEPT !.escape_timer = Cfg_ESCAPE_STEPS,
                                 !.cooldown = Cfg_COOLDOWN_STEPS,
                                 !.panic_events = @ + 1,
                                 !.pending_rescue = [t |-> tt, start_risk |-> d_t,
                                                     start_pos |-> wd.pos]]
                 ELSE a1
        target2 == IF trigger THEN "ESCAPE" ELSE target1
        target3 == IF a.mode = "ESCAPE" /\ a2.escape_timer <= 0 THEN "NORMAL" ELSE target2
    IN  [agent |-> [a2 EXCEPT !.mode = target3],
         info  |-> [mode |-> target3, panic |-> d_t, lpi |-> mon2.lpi, H |-> mon2.H,
                    panic_th |-> th.panic_th, bat_th |-> th.bat_th]]

\* the action selection without "self.escape_timer -= 1"
AgentB_StructGate_select_NoDecrement(a, wd) ==
    IF a.mode = "SURVIVAL"
    THEN {[agent |-> a, a |-> x] : x \in greedy_to_dock_action(wd)}
    ELSE IF a.mode = "ESCAPE"
    THEN {[agent |-> a, a |-> choose_escape_action(wd)]}
    ELSE {[agent |-> a, a |-> x] : x \in {"UP", "DOWN", "LEFT", "RIGHT"}}

\* the action selection of AgentB_StructGate.act: the set of [agent, a] it can end with
AgentB_StructGate_select(a, wd) ==
    IF a.mode = "SURVIVAL"
    THEN {[agent |-> a, a |-> x] : x \in greedy_to_dock_action(wd)}
    ELSE IF a.mode = "ESCAPE"
    THEN {[agent |-> [a EXCEPT !.escape_timer = @ - 1], a |-> choose_escape_action(wd)]}
    ELSE {[agent |-> a, a |-> x] : x \in {"UP", "DOWN", "LEFT", "RIGHT"}}

(***************************************************************************)
(* vacuum_x_v03.py: run_single("B", seed)                                   *)
(***************************************************************************)
InitV3 ==
    /\ variant = "AgentB_StructGate"
    /\ pc = "act"
    /\ world \in V03_InitWorlds
    /\ agent = AgentB_StructGate_init
    /\ action = None /\ info = Null /\ t = 0
    /\ game = Null

\* a, info = agent.act(world, {"t": t})
AgentBAct ==
    /\ variant = "AgentB_StructGate" /\ pc = "act" /\ t < run_single_max_steps
    /\ LET m == AgentB_StructGate_mode(agent, world, t)
       IN  /\ \E r \in AgentB_StructGate_select(m.agent, world) :
                 agent' = r.agent /\ action' = r.a
           /\ info' = m.info
    /\ pc' = "step"
    /\ UNCHANGED <<variant, game, world, t>>

\* res = world.step(a); "if res[done]: break"; next t
V3WorldStep ==
    /\ variant = "AgentB_StructGate" /\ pc = "step"
    /\ LET r == V03_VacuumWorld_step(world, action)
       IN  /\ world' = r.world
           /\ pc' = IF r.done THEN "finished" ELSE "act"
    /\ t' = t + 1
    /\ UNCHANGED <<variant, game, agent, action, info>>

\* range(max_steps) is exhausted
V3RunEnd ==
    /\ variant = "AgentB_StructGate" /\ pc = "act" /\ t >= run_single_max_steps
    /\ pc' = "finished"
    /\ UNCHANGED <<variant, game, world, agent, action, info, t>>

NextV3 == AgentBAct \/ V3WorldStep \/ V3RunEnd

SpecV3 == InitV3 /\ [][NextV3]_vars

(***************************************************************************)
(* vacuum_x_coase_frontier.py (v0.4): module constants.  The grid, the     *)
(* battery, the windows and the horizon are scaled down; the gains are the *)
(* source's.  alpha is in tenths.                                          *)
(***************************************************************************)
GRID_W == 2
GRID_H == 2
MAX_STEPS == 9
SVD_WINDOW == 6
RESCUE_WINDOW == 4
BASE_PANIC_TH == 800000
BASE_LOW_BAT == 3
BAT_MAX == 9
GAIN_PANIC == 400000
GAIN_BAT == 20000000
GAIN_BAT_PRESSURE == 250000
LPI_RHO == 750000
ALPHAS == {0, 10, 40}

V04_Cells == {<<x, y>> : x \in 0..(GRID_W - 1), y \in 0..(GRID_H - 1)}

\* VacuumWorld.__init__ (v0.4): every cell but (0,0) may be an obstacle
V04_VacuumWorld_init(obs) ==
    [grid |-> obs, pos |-> <<0, 0>>, battery |-> BAT_MAX, steps |-> 0]

\* the step without its test of the grid bounds
V04_VacuumWorld_step_NoBoundsTest(wd, act) ==
    LET n    == Add(wd.pos, ActionDelta(act))
        pos2 == IF n \notin wd.grid THEN n ELSE wd.pos
    IN  [wd EXCEPT !.pos = pos2,
                   !.battery = IF pos2 = <<0, 0>> THEN BAT_MAX ELSE wd.battery - 1,
                   !.steps = wd.steps + 1]

\* VacuumWorld.step (v0.4)
V04_VacuumWorld_step(wd, act) ==
    LET n    == Add(wd.pos, ActionDelta(act))
        pos2 == IF InGrid(n, GRID_W, GRID_H) /\ n \notin wd.grid THEN n ELSE wd.pos
    IN  [wd EXCEPT !.pos = pos2,
                   !.battery = IF pos2 = <<0, 0>> THEN BAT_MAX ELSE wd.battery - 1,
                   !.steps = wd.steps + 1]

V04_VacuumWorld_done(wd) == wd.battery <= 0 \/ wd.steps >= MAX_STEPS

\* StructGate.risk (v0.4) on the history after update
V04_StructGate_risk(hist) ==
    IF Len(hist) < 5 THEN 0
    ELSE MICRO - Min(SvdRatio(hist) * 1000 * 5, MICRO)

\* LPIMonitor.update(risk) (v0.4): [H, LPI] afterwards
V04_LPIMonitor_update(mon, risk) ==
    LET damage == 1000 + Times(50000, risk)
        H2     == Max(0, mon.H - damage)
        dH     == Max(0, mon.H - H2)
        raw    == risk + dH
    IN  [H |-> H2, LPI |-> Times(LPI_RHO, mon.LPI) + Times(MICRO - LPI_RHO, raw)]

\* self.alpha * gain
AlphaTimes(alpha, gain) == (alpha * gain) \div 10

CoaseAgent_init(alpha) ==
    [alpha |-> alpha, hist |-> <<>>, H |-> MICRO, LPI |-> 0, mode |-> "NORMAL",
     panic_events |-> 0, panic_saved |-> 0, last_panic_step |-> Null]

\* the first lines of CoaseAgent.choose: r, lpi, panic_th, low_bat_th
CoaseAgent_thresholds(a, wd) ==
    LET hist2 == DequeAppend(a.hist, wd.pos, SVD_WINDOW)
        r     == V04_StructGate_risk(hist2)
        mon2  == V04_LPIMonitor_update([H |-> a.H, LPI |-> a.LPI], r)
        bat_ratio == MICRO - (wd.battery * MICRO) \div BAT_MAX
    IN  [hist |-> hist2, r |-> r, H |-> mon2.H, lpi |-> mon2.LPI,
         panic_th   |-> BASE_PANIC_TH
                        - Times(AlphaTimes(a.alpha, GAIN_PANIC), mon2.LPI)
                        - Times(AlphaTimes(a.alpha, GAIN_BAT_PRESSURE), bat_ratio),
         low_bat_th |-> BASE_LOW_BAT * MICRO
                        + Times(AlphaTimes(a.alpha, GAIN_BAT), mon2.LPI)]

\* the rescue accounting without its test of the window: an episode counts as
\* saved at every step at which it is held
CoaseAgent_mode_NoWindowTest(a, wd) ==
    LET th    == CoaseAgent_thresholds(a, wd)
        mode2 == IF wd.battery * MICRO < th.low_bat_th THEN "SURVIVAL"
                 ELSE IF th.r > th.panic_th THEN "PANIC"
                 ELSE "NORMAL"
        event == mode2 = "PANIC" /\ a.mode # "PANIC"
        last1 == IF event THEN [step |-> wd.steps] ELSE a.last_panic_step
    IN  [a EXCEPT !.hist = th.hist, !.H = th.H, !.LPI = th.lpi, !.mode = mode2,
                  !.panic_events = IF event THEN @ + 1 ELSE @,
                  !.panic_saved = IF last1 # Null /\ ~V04_VacuumWorld_done(wd)
                                  THEN @ + 1 ELSE @,
                  !.last_panic_step = last1]

\* CoaseAgent.choose up to the action selection: the agent afterwards
CoaseAgent_mode(a, wd) ==
    LET th    == CoaseAgent_thresholds(a, wd)
        mode2 == IF wd.battery * MICRO < th.low_bat_th THEN "SURVIVAL"
                 ELSE IF th.r > th.panic_th THEN "PANIC"
                 ELSE "NORMAL"
        event == mode2 = "PANIC" /\ a.mode # "PANIC"
        last1 == IF event THEN [step |-> wd.steps] ELSE a.last_panic_step
        due   == last1 # Null /\ wd.steps - last1.step = RESCUE_WINDOW
    IN  [a EXCEPT !.hist = th.hist, !.H = th.H, !.LPI = th.lpi, !.mode = mode2,
                  !.panic_events = IF event THEN @ + 1 ELSE @,
                  !.panic_saved = IF due /\ ~V04_VacuumWorld_done(wd) THEN @ + 1 ELSE @,
                  !.last_panic_step = IF due THEN Null ELSE last1]

\* the action selection of CoaseAgent.choose: the set of actions it can return
CoaseAgent_select(a) ==
    IF a.mode = "NORMAL" THEN {"UP", "DOWN", "LEFT", "RIGHT"}
    ELSE IF a.mode = "SURVIVAL" THEN {"LEFT"}
    ELSE {"UP", "DOWN", "LEFT", "RIGHT"}

(***************************************************************************)
(* vacuum_x_coase_frontier.py: the loop of run_alpha(alpha)                 *)
(***************************************************************************)
InitV4 ==
    /\ variant = "CoaseAgent"
    /\ pc = "choose"
    /\ \E obs \in SUBSET (V04_Cells \ {<<0, 0>>}) : world = V04_VacuumWorld_init(obs)
    /\ \E alpha \in ALPHAS : agent = CoaseAgent_init(alpha)
    /\ action = None /\ info = Null /\ t = 0
    /\ game = Null

\* act = agent.choose(world)
CoaseChoose ==
    /\ variant = "CoaseAgent" /\ pc = "choose" /\ ~V04_VacuumWorld_done(world)
    /\ agent' = CoaseAgent_mode(agent, world)
    /\ action' \in CoaseAgent_select(agent')
    /\ pc' = "step"
    /\ UNCHANGED <<variant, game, world, info, t>>

\* world.step(act)
V4WorldStep ==
    /\ variant = "CoaseAgent" /\ pc = "step"
    /\ world' = V04_VacuumWorld_step(world, action)
    /\ pc' = "choose"
    /\ UNCHANGED <<variant, game, agent, action, info, t>>

\* "while not world.done()" ends
V4RunEnd ==
    /\ variant = "CoaseAgent" /\ pc = "choose" /\ V04_VacuumWorld_done(world)
    /\ pc' = "finished"
    /\ UNCHANGED <<variant, game, world, agent, action, info, t>>

NextV4 == CoaseChoose \/ V4WorldStep \/ V4RunEnd

SpecV4 == InitV4 /\ [][NextV4]_vars

(***************************************************************************)
(* All the runs: one of the four agents is run                             *)
(***************************************************************************)
Init == InitSnake \/ InitV3 \/ InitV4

Next == NextSnake \/ NextV3 \/ NextV4

Spec == Init /\ [][Next]_vars

(***************************************************************************)
(* snake_shm_v0_3_2.py: Algs called on arbitrary arguments.  game holds    *)
(* the arguments, action the move returned, info the count returned and t  *)
(* the number of returned moves that have been followed.                   *)
(***************************************************************************)
EmptyGridMax == 4

RECURSIVE SetToSeq(_)
\* a list of the cells of S (the functions call set() on it)
SetToSeq(S) ==
    IF S = {} THEN <<>>
    ELSE LET x == CHOOSE y \in S : TRUE IN <<x>> \o SetToSeq(S \ {x})

GridCells(w, h) == {<<x, y>> : x \in 0..(w - 1), y \in 0..(h - 1)}

\* the arguments (start, goal, obstacles, w, h); origin is the first start
AlgsArgs(w, h, obs, start, goal) ==
    [w |-> w, h |-> h, obstacles |-> SetToSeq(obs), start |-> start, goal |-> goal,
     origin |-> start]

\* the arguments: every grid up to the Snake grid with every obstacle set,
\* and every obstacle-free grid up to EmptyGridMax
InitAlgs ==
    /\ variant = "Algs"
    /\ pc = "call"
    /\ \/ \E w \in 1..Config_GRID_W, h \in 1..Config_GRID_H :
             \E obs \in SUBSET GridCells(w, h) :
                \E start \in GridCells(w, h), goal \in GridCells(w, h) :
                   game = AlgsArgs(w, h, obs, start, goal)
       \/ \E w \in 1..EmptyGridMax, h \in 1..EmptyGridMax :
             \E start \in GridCells(w, h), goal \in GridCells(w, h) :
                game = AlgsArgs(w, h, {}, start, goal)
    /\ action = None /\ info = Null /\ t = 0
    /\ world = Null /\ agent = Null

\* Algs.bfs_path(start, goal, obstacles, w, h)
CallBfsPath ==
    /\ variant = "Algs" /\ pc = "call"
    /\ action' = Algs_bfs_path(game.start, game.goal, game.obstacles, game.w, game.h)
    /\ pc' = "bfs_path"
    /\ UNCHANGED <<variant, game, world, agent, info, t>>

\* the returned move is made and bfs_path is called again from there
FollowBfsMove ==
    /\ variant = "Algs" /\ pc = "bfs_path" /\ action # None
    /\ t < game.w * game.h
    /\ game' = [game EXCEPT !.start = Add(game.start, ActionDelta(action))]
    /\ action' = Algs_bfs_path(game'.start, game.goal, game.obstacles, game.w, game.h)
    /\ t' = t + 1
    /\ UNCHANGED <<variant, pc, world, agent, info>>

\* Algs.flood_fill_count(start, obstacles, w, h)
CallFloodFillCount ==
    /\ variant = "Algs" /\ pc = "call"
    /\ info' = [count |-> Algs_flood_fill_count(game.start, game.obstacles, game.w, game.h)]
    /\ pc' = "flood_fill_count"
    /\ UNCHANGED <<variant, game, world, agent, action, t>>

\* Algs.get_max_reach_move(head, obstacles, w, h)
CallGetMaxReachMove ==
    /\ variant = "Algs" /\ pc = "call"
    /\ action' = Algs_get_max_reach_move(game.start, game.obstacles, game.w, game.h)
    /\ pc' = "get_max_reach_move"
    /\ UNCHANGED <<variant, game, world, agent, info, t>>

NextAlgs == CallBfsPath \/ FollowBfsMove \/ CallFloodFillCount \/ CallGetMaxReachMove

SpecAlgs == InitAlgs /\ [][NextAlgs]_vars

(***************************************************************************)
(* snake_shm_v0_3_2.py: the two searches of Algs one loop iteration at a   *)
(* time.  game holds the arguments, info the locals q and visited and the  *)
(* lists of the cells enqueued and dequeued so far; action and info.count  *)
(* hold the value returned.                                                *)
(***************************************************************************)
InitSearch ==
    /\ variant = "Search"
    /\ pc = "call"
    /\ \E w \in 1..Config_GRID_W, h \in 1..Config_GRID_H :
          \E obs \in SUBSET GridCells(w, h) :
             \E start \in GridCells(w, h), goal \in GridCells(w, h) :
                game = AlgsArgs(w, h, obs, start, goal)
    /\ action = None /\ info = Null /\ t = 0
    /\ world = Null /\ agent = Null

\* the cells of the entries that an expansion appended to the queue
Appended(q_before, q_after) ==
    [i \in 1..(Len(q_after) - Len(q_before)) |-> q_after[Len(q_before) + i]]

\* bfs_path: q = deque([(start, [])]); visited = {start}
BfsPathEnter ==
    /\ variant = "Search" /\ pc = "call"
    /\ pc' = "bfs_path"
    /\ info' = [q |-> <<[cell |-> game.start, path |-> <<>>]>>,
                visited |-> {game.start},
                enqueued |-> <<game.start>>, dequeued |-> <<>>, count |-> 0]
    /\ UNCHANGED <<variant, game, world, agent, action, t>>

\* bfs_path: one iteration of "while q", returning at the goal
BfsPathIterate ==
    /\ variant = "Search" /\ pc = "bfs_path" /\ info.q # <<>>
    /\ IF Head(info.q).cell = game.goal
       THEN /\ action' = (IF Head(info.q).path # <<>> THEN Head(info.q).path[1] ELSE None)
            /\ info' = [info EXCEPT !.q = Tail(@),
                                    !.dequeued = Append(@, Head(info.q).cell)]
            /\ pc' = "returned"
       ELSE /\ info' = [info EXCEPT
                          !.q = BfsExpand(Tail(info.q), info.visited, Head(info.q), 1,
                                          SeqToSet(game.obstacles), game.w, game.h).q,
                          !.visited = BfsExpand(Tail(info.q), info.visited, Head(info.q), 1,
                                                SeqToSet(game.obstacles), game.w, game.h).visited,
                          !.enqueued = @ \o
                              [i \in 1..(Len(BfsExpand(Tail(info.q), info.visited, Head(info.q), 1,
                                                       SeqToSet(game.obstacles), game.w, game.h).q)
                                         - Len(Tail(info.q))) |->
                                  BfsExpand(Tail(info.q), info.visited, Head(info.q), 1,
                                            SeqToSet(game.obstacles), game.w, game.h
                                           ).q[Len(Tail(info.q)) + i].cell],
                          !.dequeued = Append(@, Head(info.q).cell)]
            /\ UNCHANGED <<action, pc>>
    /\ UNCHANGED <<variant, game, world, agent, t>>

\* bfs_path: the queue is empty, "return None"
BfsPathExit ==
    /\ variant = "Search" /\ pc = "bfs_path" /\ info.q = <<>>
    /\ action' = None
    /\ pc' = "returned"
    /\ UNCHANGED <<variant, game, world, agent, info, t>>

\* flood_fill_count: q = deque([start]); visited = {start}; count = 0
FloodFillEnter ==
    /\ variant = "Search" /\ pc = "call"
    /\ pc' = "flood_fill_count"
    /\ info' = [q |-> <<game.start>>, visited |-> {game.start},
                enqueued |-> <<game.start>>, dequeued |-> <<>>, count |-> 0]
    /\ UNCHANGED <<variant, game, world, agent, action, t>>

\* flood_fill_count: one iteration of "while q"
FloodFillIterate ==
    /\ variant = "Search" /\ pc = "flood_fill_count" /\ info.q # <<>>
    /\ info' = [info EXCEPT
                  !.q = FloodExpand(Tail(info.q), info.visited, Head(info.q), 1,
                                    SeqToSet(game.obstacles), game.w, game.h).q,
                  !.visited = FloodExpand(Tail(info.q), info.visited, Head(info.q), 1,
                                          SeqToSet(game.obstacles), game.w, game.h).visited,
                  !.enqueued = @ \o
                      Appended(Tail(info.q),
                               FloodExpand(Tail(info.q), info.visited, Head(info.q), 1,
                                           SeqToSet(game.obstacles), game.w, game.h).q),
                  !.dequeued = Append(@, Head(info.q)),
                  !.count = @ + 1]
    /\ UNCHANGED <<variant, pc, game, world, agent, action, t>>

\* flood_fill_count: the queue is empty, "return count"
FloodFillExit ==
    /\ variant = "Search" /\ pc = "flood_fill_count" /\ info.q = <<>>
    /\ pc' = "returned"
    /\ UNCHANGED <<variant, game, world, agent, action, info, t>>

NextSearch ==
    \/ BfsPathEnter \/ BfsPathIterate \/ BfsPathExit
    \/ FloodFillEnter \/ FloodFillIterate \/ FloodFillExit

SpecSearch == InitSearch /\ [][NextSearch]_vars

(***************************************************************************)
(* The two VacuumWorld classes stepped with arbitrary actions, as long as  *)
(* the run loops of their modules step them: until res["done"] or the step *)
(* limit (v0.3), while not world.done() (v0.4).                            *)
(***************************************************************************)
WorldVariants == {"VacuumWorld_v03", "VacuumWorld_v04"}

\* the keys of DIRS
WorldActions == {"UP", "DOWN", "LEFT", "RIGHT", "STAY"}

InitWorld ==
    /\ variant \in WorldVariants
    /\ pc = "step"
    /\ IF variant = "VacuumWorld_v03"
       THEN world \in V03_InitWorlds
       ELSE \E obs \in SUBSET (V04_Cells \ {<<0, 0>>}) : world = V04_VacuumWorld_init(obs)
    /\ agent = Null /\ game = Null
    /\ action = None /\ info = Null /\ t = 0

\* res = world.step(a) of v0.3 for any action of DIRS
V03AnyStep ==
    /\ variant = "VacuumWorld_v03" /\ pc = "step" /\ t < run_single_max_steps
    /\ \E a \in WorldActions :
          /\ action' = a
          /\ world' = V03_VacuumWorld_step(world, a).world
          /\ pc' = IF V03_VacuumWorld_step(world, a).done THEN "finished" ELSE "step"
    /\ t' = t + 1
    /\ UNCHANGED <<variant, game, agent, info>>

\* world.step(act) of v0.4 for any action string
V04AnyStep ==
    /\ variant = "VacuumWorld_v04" /\ pc = "step" /\ ~V04_VacuumWorld_done(world)
    /\ \E a \in WorldActions :
          /\ action' = a
          /\ world' = V04_VacuumWorld_step(world, a)
    /\ UNCHANGED <<variant, pc, game, agent, info, t>>

\* "while not world.done()" ends
V04WorldDone ==
    /\ variant = "VacuumWorld_v04" /\ pc = "step" /\ V04_VacuumWorld_done(world)
    /\ pc' = "finished"
    /\ UNCHANGED <<variant, game, world, agent, action, info, t>>

NextWorld == V03AnyStep \/ V04AnyStep \/ V04WorldDone

SpecWorld == InitWorld /\ [][NextWorld]_vars

(***************************************************************************)
(* AgentB_StructGate (v0.3) and CoaseAgent (v0.4, alpha = 1.0) side by     *)
(* side: both are constructed once and at every step both are given the    *)
(* same position, battery level and step number.                           *)
(***************************************************************************)
TwinHorizon == 4

\* the battery levels fed: one below and one above the alarm thresholds of
\* both agents at rest (LOW_BAT_BASE and BASE_LOW_BAT, 20 of 60 in both
\* sources), never 0, at which neither run takes a decision
TwinBatteryLevels == {1, BAT_MAX}

\* the world the two agents are shown at step tt
TwinWorld(p, b, tt) ==
    [pos |-> p, dock |-> <<0, 0>>, battery |-> b, steps |-> tt]

InitTwin ==
    /\ variant = "Twin"
    /\ pc = "feed"
    /\ agent = [b |-> AgentB_StructGate_init, c |-> CoaseAgent_init(10),
                same_risk |-> TRUE]
    /\ world = Null /\ game = Null
    /\ action = None /\ info = Null /\ t = 0

\* the next position and battery level of the common input sequence
TwinFeed ==
    /\ variant = "Twin" /\ pc = "feed" /\ t < TwinHorizon
    /\ \E p \in V04_Cells, b \in TwinBatteryLevels : world' = TwinWorld(p, b, t)
    /\ pc' = "decide"
    /\ UNCHANGED <<variant, game, agent, action, info, t>>

\* agentB.act(world, {"t": t}) and agentC.choose(world) up to the mode
TwinDecide ==
    /\ variant = "Twin" /\ pc = "decide"
    /\ agent' = [b |-> AgentB_StructGate_mode(agent.b, world, t).agent,
                 c |-> CoaseAgent_mode(agent.c, world),
                 same_risk |-> agent.same_risk
                               /\ AgentB_StructGate_mode(agent.b, world, t).info.panic
                                  = CoaseAgent_thresholds(agent.c, world).r]
    /\ t' = t + 1
    /\ pc' = "feed"
    /\ UNCHANGED <<variant, game, world, action, info>>

NextTwin == TwinFeed \/ TwinDecide

SpecTwin == InitTwin /\ [][NextTwin]_vars

(***************************************************************************)
(* Properties                                                              *)
(***************************************************************************)
VacuumVariants == {"AgentB_StructGate", "CoaseAgent"}

DefinedActions == {"UP", "DOWN", "LEFT", "RIGHT", "STAY"}

\* a step of the run that is one call of the decision function
DecisionStep == pc \in {"get_action", "act", "choose"} /\ pc' = "step"

\* the number of panic episodes the agent has recorded
PanicCount(a) ==
    IF variant \in SnakeVariants THEN Len(a.panic_history) ELSE a.panic_events

\* the mode of the agent, the Snake latch in_panic read as PANIC / NORMAL
ModeOf(a) ==
    IF variant \in SnakeVariants
    THEN (IF a.in_panic THEN "PANIC" ELSE "NORMAL")
    ELSE a.mode

InPanicMode(a) == ModeOf(a) \in {"PANIC", "ESCAPE"}

\* C1: in every agent variant a decision step adds one panic episode to the
\* record exactly when it takes the mode from NORMAL to PANIC/ESCAPE; a step
\* that stays in PANIC, or enters it from another mode, adds nothing.
C1_EpisodesAreNormalToPanicEdges ==
    [][DecisionStep =>
          PanicCount(agent') =
              PanicCount(agent)
              + (IF ModeOf(agent) = "NORMAL" /\ InPanicMode(agent') THEN 1 ELSE 0)]_vars

\* the episode the vacuum agent holds for its rescue evaluation: the step it
\* started at, or Null (v0.3 pending_rescue["t"], v0.4 last_panic_step)
AwaitedStart(a) ==
    IF variant = "AgentB_StructGate"
    THEN (IF a.pending_rescue = Null THEN Null ELSE [step |-> a.pending_rescue.t])
    ELSE a.last_panic_step

\* the step counter the rescue window is measured on
RescueClock == IF variant = "AgentB_StructGate" THEN t ELSE world.steps

RescueWindowOf == IF variant = "AgentB_StructGate" THEN Cfg_RESCUE_WINDOW ELSE RESCUE_WINDOW

\* the number of rescue evaluations made so far (v0.3); v0.4 keeps no such
\* counter: its evaluation is the clearing of last_panic_step
C2_VacuumKeepsEpisode ==
    (variant \in VacuumVariants /\ DecisionStep /\ AwaitedStart(agent) # Null) =>
        IF RescueClock - AwaitedStart(agent).step < RescueWindowOf
        THEN \* not due yet: the episode stays awaited, whatever else starts
             /\ AwaitedStart(agent') # Null
             /\ AwaitedStart(agent').step = AwaitedStart(agent).step
        ELSE \* due: it is evaluated at this step, exactly at the offset
             /\ RescueClock - AwaitedStart(agent).step = RescueWindowOf
             /\ \/ AwaitedStart(agent') = Null
                \/ AwaitedStart(agent').step = RescueClock
             /\ variant = "AgentB_StructGate" =>
                    agent'.risk_drop_events = agent.risk_drop_events + 1

\* C2: every recorded panic episode that starts at least rescue_window steps
\* before the end of the run is evaluated for rescue exactly once, exactly
\* rescue_window steps after its start, whatever the mode is then and whether
\* or not another episode starts inside the window; in the Snake run the
\* post-run rescue_count counts each such episode once.
C2_EachEpisodeEvaluatedOnce ==
    [][/\ C2_VacuumKeepsEpisode
       /\ (variant \in SnakeVariants /\ pc' = "finished") =>
              rescue_count(agent', game') =
                  Cardinality({p \in SeqToSet(agent'.panic_history) :
                                  game'.steps_total - p >= Config_RESCUE_WINDOW})]_vars

\* the resource alarm of the decision step taken from the current state:
\* the battery is below the dynamic threshold computed in that step
ResourceAlarm ==
    IF variant = "AgentB_StructGate"
    THEN world.battery * MICRO < AgentB_StructGate_mode(agent, world, t).info.bat_th
    ELSE world.battery * MICRO < CoaseAgent_thresholds(agent, world).low_bat_th

\* C3: in both vacuum agents a decision step with the battery below the
\* dynamic alarm threshold leaves the mode SURVIVAL, whatever the risk, the
\* previous mode, the escape timer and the cooldown are.
C3_AlarmMeansSurvival ==
    [][(variant \in VacuumVariants /\ DecisionStep /\ ResourceAlarm) =>
           agent'.mode = "SURVIVAL"]_vars

\* the risk score and the risk threshold of the decision step taken from the
\* current state
StepRisk ==
    CASE variant = "AgentB_StructGate" -> AgentB_StructGate_mode(agent, world, t).info.panic
      [] variant = "CoaseAgent" -> CoaseAgent_thresholds(agent, world).r
      [] OTHER -> StructGate_analyze_risk(game.snake, game.w, game.h)

StepThreshold ==
    CASE variant = "AgentB_StructGate" -> AgentB_StructGate_mode(agent, world, t).info.panic_th
      [] variant = "CoaseAgent" -> CoaseAgent_thresholds(agent, world).panic_th
      [] variant = "SweepAgent" -> Sweep_threshold(game, agent.alpha)
      [] OTHER -> Base_threshold(game)

\* the step is taken by an agent that gates on risk (not the greedy baseline)
RiskGated == variant \in VacuumVariants \/ agent.is_coase

NoAlarm == variant \in SnakeVariants \/ ~ResourceAlarm

NoCooldown == variant = "AgentB_StructGate" => agent.cooldown = 0

\* C4: a decision step with no resource alarm, no cooldown running and
\* RiskScore >= risk_threshold (equality included) leaves the mode
\* PANIC/ESCAPE (Snake: in_panic true), in every variant, from every mode.
C4_HighRiskMeansPanic ==
    [][(DecisionStep /\ RiskGated /\ NoAlarm /\ NoCooldown /\ StepRisk >= StepThreshold) =>
           InPanicMode(agent')]_vars

\* C5: a decision step with no resource alarm and RiskScore below the
\* risk_threshold leaves the mode NORMAL with the in-panic latch cleared, in
\* every variant and from every previous mode, SURVIVAL included.
C5_LowRiskMeansNormal ==
    [][(DecisionStep /\ RiskGated /\ NoAlarm /\ StepRisk < StepThreshold) =>
           ModeOf(agent') = "NORMAL"]_vars

Neighbours(c) == {Add(c, d) : d \in {<<0, -1>>, <<0, 1>>, <<-1, 0>>, <<1, 0>>}}

FreeCell(c, obs, w, h) == InGrid(c, w, h) /\ c \notin obs

\* all four neighbours of c are blocked or out of bounds
Boxed(c, obs, w, h) == \A n \in Neighbours(c) : ~FreeCell(n, obs, w, h)

\* C7: every call of the decision function of every agent returns one of the
\* defined actions, never None, also when the goal path, the escape path and
\* the max-reach fallback all find nothing.
C7_ActionAlwaysDefined == pc = "step" => action \in DefinedActions

\* the world step that follows a decision
WorldStep == pc = "step" /\ pc' # "step"

\* C8: with all four neighbours of the head / position blocked the max-reach
\* move is none and the step that follows is a legal no-op: the body /
\* position is unchanged and the Snake game does not end in a Collision,
\* whatever the length of the snake; the vacuum agents stay in place.
C8_BoxedStepIsNoOp ==
    [][/\ (variant \in SnakeVariants /\ WorldStep
              /\ Boxed(game.snake[1], SeqToSet(ButLast(game.snake)), game.w, game.h)) =>
             /\ Algs_get_max_reach_move(game.snake[1], ButLast(game.snake), game.w, game.h) = None
             /\ game'.snake = game.snake
             /\ game'.death # "Collision"
       /\ (variant = "AgentB_StructGate" /\ WorldStep
              /\ Boxed(world.pos, world.grid, world.w, world.h)) =>
             /\ choose_escape_action(world) = "STAY"
             /\ world'.pos = world.pos
       /\ (variant = "CoaseAgent" /\ WorldStep
              /\ Boxed(world.pos, world.grid, GRID_W, GRID_H)) =>
             world'.pos = world.pos]_vars

Manhattan(p, q) ==
    (IF p[1] >= q[1] THEN p[1] - q[1] ELSE q[1] - p[1])
    + (IF p[2] >= q[2] THEN p[2] - q[2] ELSE q[2] - p[2])

\* the directions that lead to a free cell closer to the dock
TowardsDock ==
    LET wd == IF variant = "AgentB_StructGate" THEN Cfg_W ELSE GRID_W
        ht == IF variant = "AgentB_StructGate" THEN Cfg_H ELSE GRID_H
    IN  {a \in {"UP", "DOWN", "LEFT", "RIGHT"} :
            LET n == Add(world.pos, ActionDelta(a))
            IN  /\ FreeCell(n, world.grid, wd, ht)
                /\ Manhattan(n, <<0, 0>>) < Manhattan(world.pos, <<0, 0>>)}

\* C10: in both vacuum agents, when a decision step ends in SURVIVAL and some
\* direction leads to a free in-bounds cell closer to the dock, the action
\* returned is such a direction.
C10_SurvivalMovesTowardsDock ==
    (pc = "step" /\ variant \in VacuumVariants /\ agent.mode = "SURVIVAL"
        /\ TowardsDock # {}) => action \in TowardsDock

\* C6: in Vacuum v0.3, after a panic/escape event at decision step t no
\* further event is triggered (panic_events is not incremented and
\* pending_rescue is not replaced) at the steps t+1 .. t+COOLDOWN_STEPS-1, so
\* any two events are at least COOLDOWN_STEPS decision steps apart.
C6_CooldownSeparatesEvents ==
    [][(variant = "AgentB_StructGate" /\ DecisionStep
          /\ agent.pending_rescue # Null
          /\ t - agent.pending_rescue.t < Cfg_COOLDOWN_STEPS) =>
           /\ agent'.panic_events = agent.panic_events
           /\ agent'.pending_rescue = agent.pending_rescue]_vars

\* a decision has just been taken in NORMAL mode, with no resource alarm and
\* the risk at or above the threshold, inside the cooldown of an earlier event
C6_CooldownSuppressedATrigger ==
    /\ variant = "AgentB_StructGate" /\ pc = "step"
    /\ agent.pending_rescue # Null
    /\ t - agent.pending_rescue.t = Cfg_COOLDOWN_STEPS - 1
    /\ agent.mode = "NORMAL" /\ agent.cooldown > 0
    /\ info.panic >= info.panic_th
    /\ world.battery * MICRO >= info.bat_th

RECURSIVE GridDist(_, _, _, _, _, _, _)
\* the length of a shortest 4-connected path from the frontier to goal over
\* free cells, k steps having been made; -1 if there is none
GridDist(frontier, seen, goal, obs, w, h, k) ==
    IF goal \in frontier THEN k
    ELSE LET next == {n \in UNION {Neighbours(c) : c \in frontier} :
                         FreeCell(n, obs, w, h) /\ n \notin seen}
         IN  IF next = {} THEN 0 - 1
             ELSE GridDist(next, seen \cup next, goal, obs, w, h, k + 1)

ShortestDist(start, goal, obs, w, h) == GridDist({start}, {start}, goal, obs, w, h, 0)

RECURSIVE ReachSet(_, _, _, _)
\* the cells reachable from the set seen over free cells
ReachSet(seen, obs, w, h) ==
    LET next == {n \in UNION {Neighbours(c) : c \in seen} :
                     FreeCell(n, obs, w, h) /\ n \notin seen}
    IN  IF next = {} THEN seen ELSE ReachSet(seen \cup next, obs, w, h)

Area(c, obs, w, h) == Cardinality(ReachSet({c}, obs, w, h))

\* act is the first move of a shortest path from head to goal
FirstMoveOfShortestPath(act, head, goal, obs, w, h) ==
    /\ act \in {"UP", "DOWN", "LEFT", "RIGHT"}
    /\ FreeCell(Add(head, ActionDelta(act)), obs, w, h)
    /\ ShortestDist(Add(head, ActionDelta(act)), goal, obs, w, h)
           = ShortestDist(head, goal, obs, w, h) - 1

\* act is a move to a free neighbour of the largest reachable area, or None
\* when no neighbour is free
IsMaxReachMove(act, head, obs, w, h) ==
    LET free == {n \in Neighbours(head) : FreeCell(n, obs, w, h)}
    IN  IF free = {} THEN act = None
        ELSE /\ act \in {"UP", "DOWN", "LEFT", "RIGHT"}
             /\ Add(head, ActionDelta(act)) \in free
             /\ \A n \in free : Area(n, obs, w, h) <= Area(Add(head, ActionDelta(act)), obs, w, h)

\* C9: on every step of the Snake agent with risk >= threshold the action
\* returned is the first move of a shortest path from the head to the
\* snake's own tail (obstacles: the body without the tail) when there is such
\* a path, and the max-reach move otherwise; the food move is returned only
\* when it is that move.
C9_PanicMoveIsEscapeMove ==
    [][(variant \in SnakeVariants /\ DecisionStep /\ agent.is_coase
          /\ StepRisk >= StepThreshold) =>
           LET head == game.snake[1]
               tail == game.snake[Len(game.snake)]
               obs  == SeqToSet(ButLast(game.snake))
           IN  IF ShortestDist(head, tail, obs, game.w, game.h) >= 1
               THEN FirstMoveOfShortestPath(action', head, tail, obs, game.w, game.h)
               ELSE IsMaxReachMove(action', head, obs, game.w, game.h)]_vars

\* a panic step has just returned an escape move towards the tail that is
\* not the food move
C9_EscapeMoveReplacedFoodMove ==
    /\ variant \in SnakeVariants /\ pc = "step" /\ agent.in_panic
    /\ ShortestDist(game.snake[1], game.snake[Len(game.snake)],
                    SeqToSet(ButLast(game.snake)), game.w, game.h) >= 1
    /\ Algs_bfs_path(game.snake[1], game.food, ButLast(game.snake), game.w, game.h) # None
    /\ action # Algs_bfs_path(game.snake[1], game.food, ButLast(game.snake), game.w, game.h)

\* the arguments of a call of an Algs function on arbitrary arguments
AlgsObs == SeqToSet(game.obstacles)

\* C11: for every grid, obstacle set and pair start # goal, bfs_path returns
\* None exactly when the goal cannot be reached from start over 4-connected
\* in-bounds non-obstacle cells, and otherwise a direction that is the first
\* move of a start-to-goal path of minimum length.
C11_BfsPathFirstMoveOfShortestPath ==
    (variant = "Algs" /\ pc = "bfs_path" /\ game.start # game.goal) =>
        IF ShortestDist(game.start, game.goal, AlgsObs, game.w, game.h) < 0
        THEN action = None
        ELSE FirstMoveOfShortestPath(action, game.start, game.goal, AlgsObs, game.w, game.h)

\* bfs_path has returned a move for a goal that obstacles put further away
\* than its Manhattan distance
C11_BfsPathFoundDetour ==
    /\ variant = "Algs" /\ pc = "bfs_path" /\ t = 0
    /\ action # None
    /\ ShortestDist(game.start, game.goal, AlgsObs, game.w, game.h)
           > Manhattan(game.start, game.goal)

\* C12: on an obstacle-free grid, for every start # goal, bfs_path returns a
\* move into the grid that strictly reduces the Manhattan distance to the
\* goal, and following the returned moves reaches the goal in exactly the
\* Manhattan distance number of steps.
C12_EmptyGridManhattanProgress ==
    (variant = "Algs" /\ pc = "bfs_path" /\ game.obstacles = <<>>) =>
        /\ t + Manhattan(game.start, game.goal) = Manhattan(game.origin, game.goal)
        /\ game.start # game.goal =>
               /\ action \in {"UP", "DOWN", "LEFT", "RIGHT"}
               /\ InGrid(Add(game.start, ActionDelta(action)), game.w, game.h)
               /\ Manhattan(Add(game.start, ActionDelta(action)), game.goal)
                      < Manhattan(game.start, game.goal)

\* the returned moves have been followed to the right along one row of the
\* largest obstacle-free grid, from its first to its last column
C12_ReachedGoalAlongRow ==
    /\ variant = "Algs" /\ pc = "bfs_path" /\ game.obstacles = <<>>
    /\ game.w = EmptyGridMax
    /\ game.origin[1] = 0 /\ game.goal[1] = EmptyGridMax - 1
    /\ game.origin[2] = game.goal[2]
    /\ game.start = game.goal /\ t = EmptyGridMax - 1

\* the neighbour order of the specification
MoveOrder == <<"UP", "DOWN", "LEFT", "RIGHT">>

\* the i-th neighbour of the start cell is in bounds and not an obstacle
FreeMove(i) == FreeCell(Add(game.start, ActionDelta(MoveOrder[i])), AlgsObs, game.w, game.h)

\* the area reachable from the i-th neighbour of the start cell
MoveArea(i) == Area(Add(game.start, ActionDelta(MoveOrder[i])), AlgsObs, game.w, game.h)

\* C13: get_max_reach_move returns, among the in-bounds non-obstacle
\* neighbours of the head, the direction whose cell has the largest
\* flood-fill area, the earliest direction in the order UP, DOWN, LEFT, RIGHT
\* winning ties; it returns None if and only if no neighbour is free.
C13_MaxReachMoveLargestAreaFirstWins ==
    (variant = "Algs" /\ pc = "get_max_reach_move") =>
        IF \A i \in 1..4 : ~FreeMove(i)
        THEN action = None
        ELSE \E i \in 1..4 :
                /\ action = MoveOrder[i]
                /\ FreeMove(i)
                /\ \A j \in 1..4 : FreeMove(j) => MoveArea(j) <= MoveArea(i)
                /\ \A j \in 1..(i - 1) : FreeMove(j) => MoveArea(j) < MoveArea(i)

\* get_max_reach_move has returned the earlier of two free directions that
\* tie for the largest area, a free direction of a smaller area being there too
C13_TieWonByEarlierDirection ==
    /\ variant = "Algs" /\ pc = "get_max_reach_move"
    /\ \E i \in 1..4, j \in 1..4, k \in 1..4 :
          /\ i < j /\ action = MoveOrder[i]
          /\ FreeMove(i) /\ FreeMove(j) /\ FreeMove(k)
          /\ MoveArea(i) = MoveArea(j)
          /\ MoveArea(k) < MoveArea(i)

\* C14: for a fixed obstacle set, flood_fill_count returns the same value
\* from any two non-obstacle cells of the same 4-connected free component,
\* and that value is the number of cells of the component, start included.
C14_FloodFillCountIsComponentSize ==
    (variant = "Algs" /\ pc = "flood_fill_count" /\ game.start \notin AlgsObs) =>
        /\ info.count = Cardinality(ReachSet({game.start}, AlgsObs, game.w, game.h))
        /\ \A c \in ReachSet({game.start}, AlgsObs, game.w, game.h) :
              Algs_flood_fill_count(c, game.obstacles, game.w, game.h) = info.count

\* flood_fill_count has been called in a component of several cells that
\* obstacles separate from other free cells
C14_FilledOneOfSeveralComponents ==
    /\ variant = "Algs" /\ pc = "flood_fill_count" /\ game.start \notin AlgsObs
    /\ info.count >= 3
    /\ \E c \in GridCells(game.w, game.h) :
          /\ c \notin AlgsObs
          /\ c \notin ReachSet({game.start}, AlgsObs, game.w, game.h)

\* C15: within one Snake decision step every shortest-path query and every
\* flood-fill query, the risk assessor's included, runs over the same
\* obstacle set built from the snake body, so that the queries agree on
\* whether the tail cell is an obstacle.  (The risk assessor runs its flood
\* fill for the risk-gated agents on a body of at least 3 cells.)
C15_QueriesShareObstacleSet ==
    (variant \in SnakeVariants /\ pc = "step" /\ agent.is_coase /\ Len(game.snake) >= 3) =>
        /\ SeqToSet(RiskQueryObstacles(game.snake)) = SeqToSet(PathQueryObstacles(game))
        /\ game.snake[Len(game.snake)] \in SeqToSet(RiskQueryObstacles(game.snake))
               <=> game.snake[Len(game.snake)] \in SeqToSet(PathQueryObstacles(game))

\* the declared range of the risk threshold: [0.20, 0.95] in Vacuum v0.3,
\* [0, 1] elsewhere
RiskThresholdRange ==
    IF variant = "AgentB_StructGate" THEN 200000..950000 ELSE 0..MICRO

\* the resource-alarm threshold of the step is within its declared range:
\* [5, BATTERY_MAX - 1] in Vacuum v0.3, a battery level in Vacuum v0.4
AlarmThresholdInRange ==
    CASE variant = "AgentB_StructGate" ->
             LET th == AgentB_StructGate_mode(agent, world, t).info.bat_th
             IN  5 * MICRO <= th /\ th <= (Cfg_BATTERY_MAX - 1) * MICRO
      [] variant = "CoaseAgent" ->
             LET th == CoaseAgent_thresholds(agent, world).low_bat_th
             IN  0 <= th /\ th <= BAT_MAX * MICRO
      [] OTHER -> TRUE

\* C16: in every agent variant the risk threshold that a decision step
\* compares with the risk score is within its declared range ([0, 1];
\* [0.20, 0.95] in Vacuum v0.3) for every reachable resource level, stress
\* level and swept alpha, and the resource-alarm threshold is within its
\* declared range.
C16_ThresholdsClamped ==
    [][(DecisionStep /\ RiskGated) =>
           /\ StepThreshold \in RiskThresholdRange
           /\ AlarmThresholdInRange]_vars

\* the alpha values of run_clean_sweep, in tenths: 0.0, 0.5, .. 3.0
SweepAlphaGrid == {5 * k : k \in 0..6}

\* C17: in the SweepAgent, for every hunger counter with a nonzero hunger
\* ratio the threshold base + hunger_ratio * RISK_HUNGER_GAIN * alpha is
\* strictly increasing in alpha; with hunger ratio 0 or alpha 0 it is the
\* base threshold.
C17_SweepThresholdIncreasesWithAlpha ==
    [][(variant = "SweepAgent" /\ DecisionStep) =>
           /\ Sweep_threshold(game, 0) = Config_RISK_THRESHOLD_BASE
           /\ \A a1 \in SweepAlphaGrid, a2 \in SweepAlphaGrid :
                 a1 < a2 =>
                    IF hunger_ratio(game) > 0
                    THEN Sweep_threshold(game, a1) < Sweep_threshold(game, a2)
                    ELSE Sweep_threshold(game, a2) = Config_RISK_THRESHOLD_BASE]_vars

\* a SweepAgent with the largest alpha has taken a decision at a nonzero
\* hunger ratio, its threshold above the base
C17_SweepDecisionWhileHungry ==
    /\ variant = "SweepAgent" /\ pc = "step"
    /\ agent.alpha = 30
    /\ hunger_ratio(game) > 0 /\ hunger_ratio(game) < MICRO
    /\ Sweep_threshold(game, agent.alpha) > Config_RISK_THRESHOLD_BASE

\* the trajectory input of the risk assessor in the decision step taken from
\* the current state is insufficient: a body of fewer than 3 cells (Snake),
\* a window that the new position does not fill (Vacuum)
InsufficientTrajectory ==
    CASE variant = "AgentB_StructGate" ->
             Len(DequeAppend(agent.hist, world.pos, Cfg_SVD_WINDOW)) < Cfg_SVD_WINDOW
      [] variant = "CoaseAgent" ->
             Len(DequeAppend(agent.hist, world.pos, SVD_WINDOW)) < SVD_WINDOW
      [] OTHER -> Len(game.snake) < 3

\* C18: the risk assessor returns exactly 0 whenever its trajectory input is
\* insufficient: fewer than 3 body cells in the Snake variant, a trajectory
\* window of fewer than SVD_WINDOW positions in both vacuum variants.
C18_InsufficientTrajectoryMeansZeroRisk ==
    [][(DecisionStep /\ InsufficientTrajectory) => StepRisk = 0]_vars

\* the window of the vacuum agent after the decision is degenerate: all of its
\* positions lie on one row or on one column (identical positions included)
DegenerateWindow ==
    /\ variant \in VacuumVariants
    /\ \/ \A i \in 1..Len(agent.hist) : agent.hist[i][1] = agent.hist[1][1]
       \/ \A i \in 1..Len(agent.hist) : agent.hist[i][2] = agent.hist[1][2]

CoaseTwin(a) ==
    [is_coase |-> TRUE, panic_history |-> a.panic_history, in_panic |-> a.in_panic]

\* C21: SweepAgent with alpha = 1.0 is behaviourally equivalent to
\* BaseAgent(is_coase=True): on every game state of a run the decision of the
\* SweepAgent returns the action, leaves the in_panic latch and leaves the
\* panic_history that BaseAgent.get_action yields from the same latch and log.
C21_SweepAlphaOneEqualsCoaseBase ==
    [][(variant = "SweepAgent" /\ agent.alpha = 10 /\ DecisionStep) =>
           /\ action' = BaseAgent_get_action(CoaseTwin(agent), game).action
           /\ agent'.in_panic = BaseAgent_get_action(CoaseTwin(agent), game).agent.in_panic
           /\ agent'.panic_history =
                  BaseAgent_get_action(CoaseTwin(agent), game).agent.panic_history]_vars

\* a SweepAgent with alpha = 1.0 has decided while hungry (both thresholds
\* above the base) and is in a panic episode
C21_SweepAlphaOnePanicsWhileHungry ==
    /\ variant = "SweepAgent" /\ pc = "step"
    /\ agent.alpha = 10
    /\ hunger_ratio(game) > 0
    /\ agent.in_panic /\ Len(agent.panic_history) >= 1

\* the mode of the v0.3 agent in the vocabulary of v0.4 (ESCAPE is PANIC)
TwinModeOfB == IF agent.b.mode = "ESCAPE" THEN "PANIC" ELSE agent.b.mode

\* C22: the v0.4 CoaseAgent with alpha = 1.0 has the behaviour logic of the
\* v0.3 AgentB_StructGate: given the same positions and battery levels, and
\* as long as their risk values have been the same, both are in the same
\* mode and have the same panic-event count and the same rescued count.
C22_CoaseAlphaOneBehavesAsAgentB ==
    (variant = "Twin" /\ agent.same_risk) =>
        /\ TwinModeOfB = agent.c.mode
        /\ agent.b.panic_events = agent.c.panic_events
        /\ agent.b.panic_saved = agent.c.panic_saved

\* no cell occurs twice in the list
NoRepeats(cells) ==
    \A i, j \in 1..Len(cells) : cells[i] = cells[j] => i = j

\* C23: in bfs_path and flood_fill_count a cell is marked visited when it is
\* enqueued, so no cell is enqueued or dequeued twice and the loop runs at
\* most once per cell of the grid, which bounds the running time of both
\* searches (and of get_max_reach_move, four flood fills) on every finite grid.
C23_EachCellEnqueuedAtMostOnce ==
    (variant = "Search" /\ pc # "call") =>
        /\ NoRepeats(info.enqueued)
        /\ NoRepeats(info.dequeued)
        /\ SeqToSet(info.enqueued) = info.visited
        /\ Len(info.dequeued) <= game.w * game.h

\* a flood fill has returned after dequeuing every cell of a component that
\* can be reached around an obstacle
C23_SearchReturnedAfterFullComponent ==
    /\ variant = "Search" /\ pc = "returned"
    /\ game.obstacles # <<>>
    /\ info.count >= 5
    /\ Len(info.dequeued) = Len(info.enqueued)

\* the step about to be taken is SnakeGame.step(action) of a Snake run
SnakeStepTaken == variant \in SnakeVariants /\ pc = "step" /\ pc' = "get_action"

\* every neighbour of the head is out of bounds or on the body without tail
HeadEnclosed(g) ==
    \A i \in 1..Len(Algs_MOVES) :
        LET n == Add(g.snake[1], Algs_MOVES[i].d)
        IN  ~InGrid(n, g.w, g.h) \/ n \in SeqToSet(ButLast(g.snake))

\* C24: every action other than None that get_action returns moves the head
\* to an in-bounds cell off the body without its tail, so step does not end
\* the game with Collision on it; a Collision death happens only on a step
\* whose action is None, all four neighbours of the head being blocked.
C24_CollisionOnlyWhenEnclosed ==
    [][SnakeStepTaken =>
          /\ action # None =>
                 /\ InGrid(Add(game.snake[1], ActionDelta(action)), game.w, game.h)
                 /\ Add(game.snake[1], ActionDelta(action)) \notin SeqToSet(ButLast(game.snake))
                 /\ game'.death # "Collision"
          /\ game'.death = "Collision" => (action = None /\ HeadEnclosed(game))]_vars

\* a run has ended with Collision, on the action None
C24_CollisionDeathOnNone ==
    /\ variant \in SnakeVariants /\ pc = "get_action"
    /\ game.death = "Collision" /\ action = None

\* C25: in AgentB_StructGate (v0.3) SURVIVAL is absorbing: once the mode is
\* SURVIVAL it is SURVIVAL after every later decision step, whatever the
\* battery level has become, and the panic-event count no longer changes.
C25_SurvivalIsAbsorbing ==
    [][(variant = "AgentB_StructGate" /\ agent.mode = "SURVIVAL") =>
           (agent'.mode = "SURVIVAL" /\ agent'.panic_events = agent.panic_events)]_vars

\* the agent has decided in SURVIVAL on a battery recharged to the maximum,
\* above its alarm threshold
C25_SurvivalKeptAfterRecharge ==
    /\ variant = "AgentB_StructGate" /\ pc = "step"
    /\ agent.mode = "SURVIVAL"
    /\ world.steps > 0
    /\ world.battery = Cfg_BATTERY_MAX
    /\ world.battery * MICRO >= info.bat_th

\* the counters of the v0.3 agent are within their ranges, and the cooldown
\* runs whenever the mode is ESCAPE
BurstCountersInRange(a) ==
    /\ 0 <= a.escape_timer /\ a.escape_timer <= Cfg_ESCAPE_STEPS
    /\ 0 <= a.cooldown /\ a.cooldown <= Cfg_COOLDOWN_STEPS
    /\ a.mode = "ESCAPE" => a.cooldown > 0

\* C26: in AgentB_StructGate (v0.3) an escape burst entered at decision step
\* t0 keeps the mode ESCAPE at the steps t0 .. t0+ESCAPE_STEPS-1 unless the
\* resource alarm switches it to SURVIVAL, and the decision step at
\* t0+ESCAPE_STEPS leaves ESCAPE; escape_timer stays within
\* 0..ESCAPE_STEPS, cooldown within 0..COOLDOWN_STEPS, and cooldown > 0
\* whenever the mode is ESCAPE.
C26_EscapeBurstLastsEscapeSteps ==
    [][(variant = "AgentB_StructGate" /\ DecisionStep) =>
          /\ BurstCountersInRange(agent')
          \* entering: the burst starts at this step
          /\ (agent.mode # "ESCAPE" /\ agent'.mode = "ESCAPE") =>
                 (agent'.pending_rescue # Null /\ agent'.pending_rescue.t = t)
          \* within the burst: the step is one of t0 .. t0+ESCAPE_STEPS-1
          /\ agent'.mode = "ESCAPE" =>
                 /\ agent'.pending_rescue # Null
                 /\ t - agent'.pending_rescue.t = Cfg_ESCAPE_STEPS - 1 - agent'.escape_timer
                 /\ t - agent'.pending_rescue.t \in 0..(Cfg_ESCAPE_STEPS - 1)
          \* a burst not yet ESCAPE_STEPS long goes on, or the alarm ends it
          /\ (agent.mode = "ESCAPE" /\ agent.escape_timer > 0) =>
                 \/ agent'.mode = "ESCAPE"
                 \/ agent'.mode = "SURVIVAL" /\ ResourceAlarm
          \* the step t0+ESCAPE_STEPS leaves ESCAPE
          /\ (agent.mode = "ESCAPE" /\ agent.escape_timer = 0) =>
                 agent'.mode # "ESCAPE"]_vars

\* a burst has lasted ESCAPE_STEPS steps and the next decision has left ESCAPE
C26_BurstTimedOut ==
    /\ variant = "AgentB_StructGate" /\ pc = "step"
    /\ agent.mode = "NORMAL"
    /\ agent.pending_rescue # Null
    /\ t - agent.pending_rescue.t = Cfg_ESCAPE_STEPS
    /\ agent.escape_timer = 0 /\ agent.cooldown > 0

C28_PositionFreeBatteryBounded ==
    variant \in WorldVariants =>
        /\ IF variant = "VacuumWorld_v03"
           THEN VacuumWorld_is_free(world, world.pos)
           ELSE InGrid(world.pos, GRID_W, GRID_H) /\ world.pos \notin world.grid
        /\ 0 <= world.battery
        /\ world.battery <= (IF variant = "VacuumWorld_v03" THEN Cfg_BATTERY_MAX ELSE BAT_MAX)
        /\ world.pos = <<0, 0>> =>
               world.battery = (IF variant = "VacuumWorld_v03" THEN Cfg_BATTERY_MAX ELSE BAT_MAX)

\* a v0.4 world whose dock is walled in has been stepped UP, out of the grid,
\* after earlier steps: the agent is still on the dock with a full battery
C28_SteppedAgainstTheBoundary ==
    /\ variant = "VacuumWorld_v04"
    /\ world.grid = V04_Cells \ {<<0, 0>>}
    /\ world.steps >= 2
    /\ action = "UP"
    /\ world.pos = <<0, 0>> /\ world.battery = BAT_MAX

\* the agents that differ from a in nothing but the latch, the episode log
\* and (SweepAgent) the panic step counter
LatchVariants(a) ==
    IF variant = "SweepAgent"
    THEN {[a EXCEPT !.in_panic = ip, !.panic_history = ph, !.steps_in_panic = sp] :
             ip \in BOOLEAN, ph \in {<<>>, <<0>>}, sp \in {0, 5}}
    ELSE {[a EXCEPT !.in_panic = ip, !.panic_history = ph] :
             ip \in BOOLEAN, ph \in {<<>>, <<0>>}}

\* the action get_action returns to agent a on game g
ActionReturnedTo(a, g) ==
    IF variant = "SweepAgent"
    THEN SweepAgent_get_action(a, g).action
    ELSE BaseAgent_get_action(a, g).action

\* C29: the action of get_action depends on the game snapshot and alpha only:
\* on every game state of a run, an agent that differs from the deciding one
\* only in in_panic, panic_history or steps_in_panic gets the same action.
C29_ActionIgnoresLatchAndLog ==
    [][(variant \in SnakeVariants /\ DecisionStep) =>
           \A a2 \in LatchVariants(agent) : ActionReturnedTo(a2, game) = action']_vars

\* a Coase agent has decided while already inside a panic episode that
\* started at an earlier step
C29_DecidedInsideAnEpisode ==
    /\ variant \in SnakeVariants /\ pc = "step"
    /\ agent.in_panic
    /\ Len(agent.panic_history) >= 1
    /\ agent.panic_history[Len(agent.panic_history)] < game.steps_total

=============================================================================
